---- MODULE Spec2Model ----
(***************************************************************************)
(* A model of gwpy/detector/channel.py: the channel-name parser, the       *)
(* Channel record with its setters and copy-merge constructor, ChannelList *)
(* (from_names, sieve) and the NDS2 availability resolver.                 *)
(*                                                                         *)
(* Text is modelled at the character level: a Python str is a sequence of  *)
(* one-character strings, so that splitting, stripping, prefix tests and   *)
(* pattern matches are computed the way the code computes them.            *)
(***************************************************************************)
EXTENDS Integers, Sequences, FiniteSets, TLC

VARIABLES
    pn_name, pn_out,            \* parser: the input name and parse_channel_name's result
    c, n, last,                 \* Channel: a live channel, the one just constructed, the last operation
    lst, call, res,             \* ChannelList: the receiver, the last sieve call and its outcome
    res2, ifos_res,             \* the outcome of the same sieve on its result; the value last read from ifos
    sn_items, sn_in, sn_namestr, sn_out, sn_pc, sn_chans,   \* from_names / _split_names
    av_channels, av_span, av_retcode, av_i, av_segs, av_line, av_pc, av_err, av_nlines,  \* availability resolver
    q_names, q_type, q_unique, q_k, q_out, q_found, q_query, q_finds, q_pc, q_err, q_warn  \* query_nds2

parseVars == <<pn_name, pn_out>>
chanVars  == <<c, n, last>>
listVars  == <<lst, call, res, res2, ifos_res>>
namesVars == <<sn_items, sn_in, sn_namestr, sn_out, sn_pc, sn_chans>>
availVars == <<av_channels, av_span, av_retcode, av_i, av_segs, av_line, av_pc, av_err, av_nlines>>
queryVars == <<q_names, q_type, q_unique, q_k, q_out, q_found, q_query, q_finds, q_pc, q_err, q_warn>>
vars == <<parseVars, chanVars, listVars, namesVars, availVars, queryVars>>

-----------------------------------------------------------------------------
(* Python values.  A field of a Channel holds None, a number or a str.     *)

PyNone == [k |-> "none", i |-> 0, s |-> <<>>]
PyInt(x) == [k |-> "int", i |-> x, s |-> <<>>]
PyStr(x) == [k |-> "str", i |-> 0, s |-> x]

\* Python truthiness of None, a number and a str (the operand of `or`, `and`, `if`).
Truthy(v) == ~(v.k = "none" \/ (v.k = "int" /\ v.i = 0) \/ (v.k = "str" /\ v.s = <<>>))

\* `a or b`
PyOr(a, b) == IF Truthy(a) THEN a ELSE b

-----------------------------------------------------------------------------
(* str operations *)

Upper == {"A","B","C","D","E","F","G","H","I","J","K","L","M",
          "N","O","P","Q","R","S","T","U","V","W","X","Y","Z"}
Digit == {"0","1","2","3","4","5","6","7","8","9"}
LowerLetters == {"a","b","c","d","e","f","g","h","i","j","k","l","m",
                 "n","o","p","q","r","s","t","u","v","w","x","y","z"}
\* \w of the re module
WordChar == Upper \cup LowerLetters \cup Digit \cup {"_"}

LowerOf == [ch \in Upper |->
    CASE ch = "A" -> "a" [] ch = "B" -> "b" [] ch = "C" -> "c" [] ch = "D" -> "d"
      [] ch = "E" -> "e" [] ch = "F" -> "f" [] ch = "G" -> "g" [] ch = "H" -> "h"
      [] ch = "I" -> "i" [] ch = "J" -> "j" [] ch = "K" -> "k" [] ch = "L" -> "l"
      [] ch = "M" -> "m" [] ch = "N" -> "n" [] ch = "O" -> "o" [] ch = "P" -> "p"
      [] ch = "Q" -> "q" [] ch = "R" -> "r" [] ch = "S" -> "s" [] ch = "T" -> "t"
      [] ch = "U" -> "u" [] ch = "V" -> "v" [] ch = "W" -> "w" [] ch = "X" -> "x"
      [] ch = "Y" -> "y" [] ch = "Z" -> "z"]

\* str.lower()
Lower(s) == [j \in DOMAIN s |-> IF s[j] \in Upper THEN LowerOf[s[j]] ELSE s[j]]

Take(s, k) == SubSeq(s, 1, k)
Drop(s, k) == SubSeq(s, k + 1, Len(s))

\* index of the first / last character of s that is in cs, 0 when there is none
FirstIdx(s, cs) ==
    IF \E j \in DOMAIN s : s[j] \in cs
    THEN CHOOSE j \in DOMAIN s : s[j] \in cs /\ \A m \in 1..(j - 1) : s[m] \notin cs
    ELSE 0
LastIdx(s, cs) ==
    IF \E j \in DOMAIN s : s[j] \in cs
    THEN CHOOSE j \in DOMAIN s : s[j] \in cs /\ \A m \in (j + 1)..Len(s) : s[m] \notin cs
    ELSE 0

\* s.startswith(p)
StartsWith(s, p) == Len(p) <= Len(s) /\ Take(s, Len(p)) = p

\* `sub in s`
Contains(s, sub) ==
    \E j \in 0..(Len(s) - Len(sub)) : SubSeq(s, j + 1, j + Len(sub)) = sub

\* s.split(sep, maxsplit) for a separator that is any one character of cs
\* (also re.split of a one-character class)
RECURSIVE SplitMax(_, _, _)
SplitMax(s, cs, max) ==
    LET j == FirstIdx(s, cs) IN
    IF max = 0 \/ j = 0 THEN <<s>>
    ELSE <<Take(s, j - 1)>> \o SplitMax(Drop(s, j), cs, max - 1)

\* s.split(sep): no limit
Split(s, cs) == SplitMax(s, cs, Len(s))

\* s.rsplit(sep, 1)
RSplit1(s, cs) ==
    LET j == LastIdx(s, cs) IN
    IF j = 0 THEN <<s>> ELSE <<Take(s, j - 1), Drop(s, j)>>

\* s.lstrip(chars), s.rstrip(chars), s.strip(chars)
RECURSIVE LStrip(_, _)
LStrip(s, cs) == IF s # <<>> /\ s[1] \in cs THEN LStrip(Tail(s), cs) ELSE s
RECURSIVE RStrip(_, _)
RStrip(s, cs) == IF s # <<>> /\ s[Len(s)] \in cs THEN RStrip(Take(s, Len(s) - 1), cs) ELSE s
Strip(s, cs) == RStrip(LStrip(s, cs), cs)

-----------------------------------------------------------------------------
(* The NDS2 channel types (gwpy.io.nds): the canonical type strings and    *)
(* the numeric code each is bound to.                                      *)

NDS2_CHANNEL_TYPESTR ==
    [code \in {1, 2, 4, 8, 16, 32, 64} |->
        CASE code = 1  -> <<"o","n","l","i","n","e">>
          [] code = 2  -> <<"r","a","w">>
          [] code = 4  -> <<"r","e","d","u","c","e","d">>
          [] code = 8  -> <<"s","-","t","r","e","n","d">>
          [] code = 16 -> <<"m","-","t","r","e","n","d">>
          [] code = 32 -> <<"t","e","s","t","-","p","t">>
          [] code = 64 -> <<"s","t","a","t","i","c">>]

\* the keys of NDS2_CHANNEL_TYPE, the inverse table
NDS2_CHANNEL_TYPE == {NDS2_CHANNEL_TYPESTR[code] : code \in DOMAIN NDS2_CHANNEL_TYPESTR}

-----------------------------------------------------------------------------
(* parse_channel_name *)

\* _re_ifo.match(name): "[A-Z]\d:" at the start of the name
re_ifo_match(name) ==
    Len(name) >= 3 /\ name[1] \in Upper /\ name[2] \in Digit /\ name[3] = ":"

\* _re_cchar: "[-_]"
re_cchar == {"-", "_"}

\* the result tuple: system, then subsystem and signal when the tags exist
parse_tags(ifo, tags) ==
    <<ifo, PyStr(tags[1]),
      IF Len(tags) > 1 THEN PyStr(tags[2]) ELSE PyNone,
      IF Len(tags) > 2 THEN PyStr(tags[3]) ELSE PyNone>>

\* "parse systems", splitting at every delimiter (no maxsplit)
parse_systems_nolimit(ifo, nm) == parse_tags(ifo, Split(nm, re_cchar))

\* "parse systems": _re_cchar.split(name, maxsplit=2)
parse_systems(ifo, nm) == parse_tags(ifo, SplitMax(nm, re_cchar, 2))

\* `ifo, name = name.split(":", 1)`
parse_ifo(parts) == parse_systems(PyStr(parts[1]), parts[2])

\* parse_channel_name; `if not name` covers None and ""
parse_channel_name(name) ==
    IF ~Truthy(name) THEN <<PyNone, PyNone, PyNone, PyNone>>
    ELSE IF re_ifo_match(name.s) THEN parse_ifo(SplitMax(name.s, {":"}, 1))
    ELSE parse_systems(PyNone, name.s)

-----------------------------------------------------------------------------
(* Channel *)

\* an object whose attributes are not set yet; Channel.type reads as None then
Blank == [name |-> <<>>, sample_rate |-> PyNone, unit |-> PyNone, dtype |-> PyNone,
          type |-> PyNone, model |-> PyNone, url |-> PyNone,
          ifo |-> PyNone, system |-> PyNone, subsystem |-> PyNone, signal |-> PyNone]

Ok(ch) == [ch |-> ch, err |-> ""]
Raise(ch, e) == [ch |-> ch, err |-> e]

\* Channel.type setter
TypeSetter(ch, t) ==
    IF t.k = "none" THEN Ok([ch EXCEPT !.type = PyNone])
    ELSE IF t.k = "int" /\ t.i \in DOMAIN NDS2_CHANNEL_TYPESTR
         THEN Ok([ch EXCEPT !.type = PyStr(NDS2_CHANNEL_TYPESTR[t.i])])
    ELSE IF t.k = "int" THEN Raise(ch, "AttributeError")
    ELSE IF Lower(t.s) \in NDS2_CHANNEL_TYPE
         THEN Ok([ch EXCEPT !.type = PyStr(Lower(t.s))])
    ELSE Raise(ch, "ValueError")

\* the last statement of the name setter
SetDerived(ch, p) ==
    [ch EXCEPT !.ifo = p[1], !.system = p[2], !.subsystem = p[3], !.signal = p[4]]
Reparse(ch) == SetDerived(ch, parse_channel_name(PyStr(ch.name)))

\* a ValueError handler that stores the name and returns without parsing it
NameSetterTypedStale(ch, nm, t) ==
    IF t.err = "ValueError" THEN Ok([ch EXCEPT !.name = nm])
    ELSE IF t.err # "" THEN Raise(ch, t.err)
    ELSE Ok(Reparse(t.ch))

\* a ValueError handler that leaves the name cut at the comma
NameSetterTypedKeepPrefix(ch, nm, t) ==
    IF t.err \notin {"", "ValueError"} THEN Raise(ch, t.err) ELSE Ok(Reparse(t.ch))

\* the name setter once `self.type = ...` has run with outcome t: a rejected
\* type raises ValueError, whose handler stores the whole string as the name;
\* any other error leaves the setter
NameSetterTyped(ch, nm, t) ==
    IF t.err = "ValueError" THEN Ok(Reparse([ch EXCEPT !.name = nm]))
    ELSE IF t.err # "" THEN Raise(ch, t.err)
    ELSE Ok(Reparse(t.ch))

\* `self._name, self.type = parts`: a one-element split raises ValueError
\* before anything is assigned; else the name is assigned, then the type
NameSetterParts(ch, nm, parts) ==
    IF Len(parts) = 1 THEN Ok(Reparse([ch EXCEPT !.name = nm]))
    ELSE NameSetterTyped(ch, nm, TypeSetter([ch EXCEPT !.name = parts[1]], PyStr(parts[2])))

\* Channel.name setter
NameSetter(ch, nm) == NameSetterParts(ch, nm, RSplit1(nm, {","}))

\* Channel.sample_rate setter: None stays None, a number becomes a Quantity in
\* Hertz (its magnitude is kept here), a str that is no number raises
SampleRateSetter(ch, rate) ==
    IF rate.k = "none" THEN Ok([ch EXCEPT !.sample_rate = PyNone])
    ELSE IF rate.k = "int" THEN Ok([ch EXCEPT !.sample_rate = PyInt(rate.i)])
    ELSE Raise(ch, "ValueError")

\* Channel.unit setter; units.Unit is an opaque validated value
UnitSetter(ch, u) == Ok([ch EXCEPT !.unit = u])

\* Channel.dtype setter; numpy.dtype is an opaque validated value
DtypeSetter(ch, t) == Ok([ch EXCEPT !.dtype = t])

\* Channel.model setter: `mdl and mdl.lower() or mdl`
ModelSetter(ch, mdl) ==
    Ok([ch EXCEPT !.model = IF Truthy(mdl) THEN PyOr(PyStr(Lower(mdl.s)), mdl) ELSE mdl])

\* Channel.url setter
UrlSetter(ch, href) == Ok([ch EXCEPT !.url = href])

KwNames == {"sample_rate", "unit", "dtype", "type", "model", "url"}
NoKw == [f \in KwNames |-> PyNone]

\* Channel.__init__, "set attributes": dtype, model, url after the type
ChannelInit_rest(e, kw) ==
    IF e.err # "" THEN Raise(Blank, e.err)
    ELSE UrlSetter(ModelSetter(DtypeSetter(e.ch, kw.dtype).ch, kw.model).ch, kw.url)

\* `if type_ is not None: self.type = type_`
ChannelInit_type(ch, kw) ==
    IF kw.type.k # "none" THEN ChannelInit_rest(TypeSetter(ch, kw.type), kw)
    ELSE ChannelInit_rest(Ok(ch), kw)

\* `self.unit = unit`, after the sample rate was set with outcome b
ChannelInit_unit(b, kw) ==
    IF b.err # "" THEN Raise(Blank, b.err)
    ELSE ChannelInit_type(UnitSetter(b.ch, kw.unit).ch, kw)

\* `self.sample_rate = sample_rate`, after the name was set with outcome a
ChannelInit_rate(a, kw) ==
    IF a.err # "" THEN Raise(Blank, a.err)
    ELSE ChannelInit_unit(SampleRateSetter(a.ch, kw.sample_rate), kw)

\* Channel.__init__ after the test for Channel input: "set attributes"
ChannelInit(nm, kw) == ChannelInit_rate(NameSetter(Blank, nm), kw)

\* Channel.__init__ given a Channel: `x = x or ch.x` for each keyword, then
\* the set-attributes part with ch.name
ChannelFrom(src, kw) ==
    ChannelInit(src.name, [f \in KwNames |-> PyOr(kw[f], src[f])])

Derived(ch) == <<ch.ifo, ch.system, ch.subsystem, ch.signal>>

-----------------------------------------------------------------------------
(* Values the variables of a component hold while another one is at work  *)

NoChannel == [live |-> FALSE, ch |-> Blank, err |-> ""]
\* the outcome of a constructor call: the new object, or the error raised
Constructed(r) == [live |-> r.err = "", ch |-> r.ch, err |-> r.err]
NoOp == [op |-> "none", nm |-> <<>>, kw |-> NoKw, err |-> ""]

ParseIdle == pn_name = PyNone /\ pn_out = <<>>
ChanIdle  == c = Blank /\ n = NoChannel /\ last = NoOp
ListIdle  == lst = <<>> /\ call = <<>> /\ res = <<>> /\ res2 = <<>> /\ ifos_res = <<>>
NamesIdle == sn_items = <<>> /\ sn_in = <<>> /\ sn_namestr = <<>> /\ sn_out = <<>>
             /\ sn_pc = "idle" /\ sn_chans = <<>>
AvailIdle == av_channels = <<>> /\ av_span = <<0, 0>> /\ av_retcode = 0 /\ av_i = 0
             /\ av_segs = <<>> /\ av_line = <<>> /\ av_pc = "idle" /\ av_err = ""
             /\ av_nlines = 0
QueryIdle == q_names = <<>> /\ q_type = PyNone /\ q_unique = FALSE /\ q_k = 0 /\ q_out = <<>>
             /\ q_found = <<>> /\ q_query = <<>> /\ q_finds = 0 /\ q_pc = "idle"
             /\ q_err = "" /\ q_warn = 0

-----------------------------------------------------------------------------
(* The parser on its own: a name is drawn, parse_channel_name is applied *)

MaxParseLen == 6
ParseExamples ==
    { <<"H","1",":","S","Y","S","-","S","U","B","_","S","I","G">>,
      <<"S","Y","S">>,
      <<"h","1",":","s","-","s">>,
      <<"H","1",":","S","Y","S","_","S","U","B","-","S","I","G","_","X","-","Y">> }
ParseInputs ==
    {PyNone} \cup {PyStr(x) : x \in ParseExamples}
    \cup {PyStr(x) : x \in UNION {[1..k -> {"H", "1", ":", "-", "_"}] : k \in 0..MaxParseLen}}

InitParse == pn_name \in ParseInputs /\ pn_out = <<>>
             /\ ChanIdle /\ ListIdle /\ NamesIdle /\ AvailIdle /\ QueryIdle

Parse == /\ pn_out = <<>>
         /\ pn_out' = parse_channel_name(pn_name)
         /\ UNCHANGED <<pn_name, chanVars, listVars, namesVars, availVars, queryVars>>

NextParse == Parse
SpecParse == InitParse /\ [][NextParse]_vars

-----------------------------------------------------------------------------
(* Channel objects: construction and the setters *)

NameInputs ==
    { <<"H","1",":","A","-","B","_","C">>,
      <<"A">>,
      <<"H","1",":","A",",","r","a","w">>,
      <<"A",",","R","A","W">>,
      <<"A",",","x","x">>,
      <<"A",",","r","a","w",",","r","a","w">> }
RateInputs  == {PyNone, PyInt(0), PyInt(16)}
UnitInputs  == {PyNone, PyStr(<<"m">>)}
DtypeInputs == {PyNone, PyStr(<<"f","8">>)}
TypeInputs  == {PyNone, PyStr(<<"R","A","W">>), PyStr(<<"m","-","t","r","e","n","d">>),
                PyStr(<<>>), PyStr(<<"x","x">>), PyInt(2)}
ModelInputs == {PyNone, PyStr(<<"M","1">>)}
UrlInputs   == {PyNone, PyStr(<<>>), PyStr(<<"u">>)}
\* the keyword sets of a call: at most MaxKw keywords are supplied at once
MaxKw == 2
KwInputs ==
    {kw \in [sample_rate : RateInputs, unit : UnitInputs, dtype : DtypeInputs,
             type : TypeInputs, model : ModelInputs, url : UrlInputs] :
        Cardinality({f \in KwNames : kw[f] # PyNone}) <= MaxKw}

InitChannel == /\ c \in {ChannelInit(nm, NoKw).ch : nm \in NameInputs}
               /\ n = NoChannel
               /\ last = NoOp
               /\ ParseIdle /\ ListIdle /\ NamesIdle /\ AvailIdle /\ QueryIdle

ChanFrame == UNCHANGED <<parseVars, listVars, namesVars, availVars, queryVars>>

\* c.name = nm
SetNameDone(nm, r) ==
    /\ c' = r.ch
    /\ last' = [NoOp EXCEPT !.op = "name", !.nm = nm, !.err = r.err]
SetName(nm) ==
    /\ ~n.live
    /\ SetNameDone(nm, NameSetter(c, nm))
    /\ UNCHANGED n /\ ChanFrame

\* c.<field> = v, through the setter of a field other than name; r is the
\* setter's outcome (a setter that raises leaves the object as it was)
Assign(r) ==
    /\ ~n.live
    /\ c' = r.ch
    /\ last' = [NoOp EXCEPT !.op = "attr"]
    /\ UNCHANGED n /\ ChanFrame

SetSampleRate(v) == Assign(SampleRateSetter(c, v))
SetUnit(v)  == Assign(UnitSetter(c, v))
SetDtype(v) == Assign(DtypeSetter(c, v))
SetType(v)  == Assign(TypeSetter(c, v))
SetModel(v) == Assign(ModelSetter(c, v))
SetUrl(v)   == Assign(UrlSetter(c, v))

\* Channel(nm)
Construct(nm) ==
    /\ ~n.live
    /\ n' = Constructed(ChannelInit(nm, NoKw))
    /\ last' = [NoOp EXCEPT !.op = "new", !.nm = nm, !.err = n'.err]
    /\ UNCHANGED c /\ ChanFrame

\* Channel(c, **kw)
NewFrom(kw) ==
    /\ ~n.live
    /\ n' = Constructed(ChannelFrom(c, kw))
    /\ last' = [NoOp EXCEPT !.op = "newfrom", !.kw = IF n'.live THEN kw ELSE NoKw,
                             !.err = n'.err]
    /\ UNCHANGED c /\ ChanFrame

\* the program goes on with the new channel, or drops it
Adopt ==
    /\ n.live
    /\ c' = n.ch /\ n' = NoChannel /\ last' = NoOp
    /\ ChanFrame
Discard ==
    /\ n.live
    /\ n' = NoChannel /\ last' = NoOp
    /\ UNCHANGED c /\ ChanFrame

NextChannel ==
    \/ \E nm \in NameInputs : SetName(nm)
    \/ \E v \in RateInputs : SetSampleRate(v)
    \/ \E v \in UnitInputs : SetUnit(v)
    \/ \E v \in DtypeInputs : SetDtype(v)
    \/ \E v \in TypeInputs : SetType(v)
    \/ \E v \in ModelInputs : SetModel(v)
    \/ \E v \in UrlInputs : SetUrl(v)
    \/ \E nm \in NameInputs : Construct(nm)
    \/ \E kw \in KwInputs : NewFrom(kw)
    \/ Adopt
    \/ Discard
SpecChannel == InitChannel /\ [][NextChannel]_vars

-----------------------------------------------------------------------------
(* ChannelList.sieve *)

\* the anchors \A and \Z of the re module, two characters each
re_A == <<"\\", "A">>
re_Z == <<"\\", "Z">>
EndsWith(s, p) == Len(p) <= Len(s) /\ SubSeq(s, Len(s) - Len(p) + 1, Len(s)) = p

\* `name.startswith(r'\A') and name or r"\A%s" % name`, then the same with \Z
sieve_anchor_end(name) == IF EndsWith(name, re_Z) THEN name ELSE name \o re_Z
sieve_exact(name) == sieve_anchor_end(IF StartsWith(name, re_A) THEN name ELSE re_A \o name)

\* name_regexp.search(text) is not None, for a pattern of literal characters
\* with an optional \A in front and an optional \Z behind
re_literal(pat) ==
    SubSeq(pat, IF StartsWith(pat, re_A) THEN 3 ELSE 1,
                IF EndsWith(pat, re_Z) THEN Len(pat) - 2 ELSE Len(pat))
re_search(pat, text) ==
    IF StartsWith(pat, re_A) /\ EndsWith(pat, re_Z) THEN text = re_literal(pat)
    ELSE IF StartsWith(pat, re_A) THEN StartsWith(text, re_literal(pat))
    ELSE IF EndsWith(pat, re_Z) THEN EndsWith(text, re_literal(pat))
    ELSE Contains(text, re_literal(pat))

\* the outcome of a sieve call: the receiver after the call, the object
\* returned ("new": a list built by the call) and its elements, or the error
SieveRaise(self, e) == [recv |-> self, ident |-> "none", out |-> <<>>, err |-> e]

\* a return that leaves out the first element that passed
sieve_return_rest(self, cc) ==
    [recv |-> self, ident |-> "new", out |-> IF cc = <<>> THEN cc ELSE Tail(cc), err |-> ""]

\* `return self.__class__(c)`
sieve_return(self, cc) == [recv |-> self, ident |-> "new", out |-> cc, err |-> ""]

\* the loop over `others`: one list comprehension for each keyword whose value
\* is not None
sieve_others(self, cc, f) ==
    sieve_return(self,
        SelectSeq(cc, LAMBDA entry :
            \A attr \in DOMAIN f.others :
                f.others[attr] # PyNone =>
                    (attr \in DOMAIN entry /\ entry[attr] = f.others[attr])))

\* `if sample_range is not None`: float(None) raises TypeError
sieve_range(self, cc, f) ==
    IF f.sample_range = <<>> THEN sieve_others(self, cc, f)
    ELSE IF \E j \in DOMAIN cc : cc[j].sample_rate = PyNone THEN SieveRaise(self, "TypeError")
    ELSE sieve_others(self,
            SelectSeq(cc, LAMBDA entry :
                f.sample_range[1] <= entry.sample_rate.i
                /\ entry.sample_rate.i <= f.sample_range[2]), f)

\* `if sample_rate is not None`
sieve_rate(self, cc, f) ==
    IF f.sample_rate = PyNone THEN sieve_range(self, cc, f)
    ELSE sieve_range(self,
            SelectSeq(cc, LAMBDA entry :
                Truthy(entry.sample_rate) /\ entry.sample_rate.i = f.sample_rate.i), f)

\* `c = list(self)`, then `if name is not None`: the name filter
sieve_name(self, pat, f) ==
    IF pat = PyNone THEN sieve_rate(self, self, f)
    ELSE sieve_rate(self, SelectSeq(self, LAMBDA entry : re_search(pat.s, entry.name)), f)

\* `name_regexp = re.compile(name, flags=flags)`: None is no pattern
sieve_compile(self, pat, f) ==
    IF pat = PyNone THEN SieveRaise(self, "TypeError") ELSE sieve_name(self, pat, f)

\* a sieve that filters the receiver in place and returns it
sieve_inplace(self, f) ==
    [recv  |-> SelectSeq(self, LAMBDA entry : f.name = PyNone \/ re_search(f.name.s, entry.name)),
     ident |-> "self",
     out   |-> SelectSeq(self, LAMBDA entry : f.name = PyNone \/ re_search(f.name.s, entry.name)),
     err   |-> ""]

\* ChannelList.sieve(name, sample_rate, sample_range, exact_match, **others),
\* name being a str or None: `if exact_match` calls name.startswith
sieve(self, f) ==
    IF f.exact_match
    THEN IF f.name = PyNone THEN SieveRaise(self, "AttributeError")
         ELSE sieve_compile(self, PyStr(sieve_exact(f.name.s)), f)
    ELSE sieve_compile(self, f.name, f)

-----------------------------------------------------------------------------
(* A ChannelList and the sieve calls made on it *)

MaxListLen == 2
Str_H1_A  == <<"H","1",":","A">>
ListRateTypes ==
    {<<PyNone, PyNone>>, <<PyInt(16), PyNone>>,
     <<PyInt(16), PyStr(<<"r","a","w">>)>>, <<PyInt(256), PyStr(<<"r","a","w">>)>>}
ListElements ==
    {ChannelInit(nr[1], [NoKw EXCEPT !.sample_rate = nr[2][1], !.type = nr[2][2]]).ch :
        nr \in ({Str_H1_A, <<"L","1",":","A","B">>} \X ListRateTypes)
               \cup ({<<"X">>} \X {<<PyNone, PyNone>>, <<PyInt(16), PyStr(<<"r","a","w">>)>>})}
SieveInputs ==
    [name : {PyNone, PyStr(<<"A">>), PyStr(<<"L","1",":","A">>), PyStr(<<"\\","A","X">>)},
     sample_rate : {PyNone, PyInt(16)},
     sample_range : {<<>>, <<16, 16>>, <<0, 256>>},
     exact_match : BOOLEAN,
     others : [{"type", "foo"} -> {PyNone, PyStr(<<"r","a","w">>)}]]

NoResult == [recv |-> <<>>, ident |-> "none", out |-> <<>>, err |-> "idle"]

\* ChannelList.ifos
ifos(self) == {self[j].ifo : j \in DOMAIN self}

InitList == /\ lst = <<>> /\ call = <<>> /\ res = NoResult /\ res2 = NoResult
            /\ ifos_res = <<>>
            /\ ParseIdle /\ ChanIdle /\ NamesIdle /\ AvailIdle /\ QueryIdle
ListFrame == UNCHANGED <<parseVars, chanVars, namesVars, availVars, queryVars>>

\* lst.append(e)
ListAppend(e) ==
    /\ call = <<>> /\ Len(lst) < MaxListLen
    /\ lst' = Append(lst, e)
    /\ ifos_res' = <<>>
    /\ UNCHANGED <<call, res, res2>> /\ ListFrame

\* lst.ifos is read
Ifos ==
    /\ call = <<>> /\ ifos_res = <<>>
    /\ ifos_res' = <<ifos(lst)>>
    /\ UNCHANGED <<lst, call, res, res2>> /\ ListFrame

\* lst.sieve(**f); the receiver is what the call leaves of it
SieveDone(f, r) == lst' = r.recv /\ call' = <<f>> /\ res' = r
Sieve(f) ==
    /\ call = <<>>
    /\ SieveDone(f, sieve(lst, f))
    /\ ifos_res' = <<>>
    /\ UNCHANGED res2 /\ ListFrame

\* the list a sieve call returned is sieved with the same arguments
SieveAgain ==
    /\ call # <<>> /\ res.err = "" /\ res2 = NoResult
    /\ res2' = sieve(res.out, call[1])
    /\ UNCHANGED <<lst, call, res, ifos_res>> /\ ListFrame

\* the caller is done with the result
Release ==
    /\ call # <<>>
    /\ call' = <<>> /\ res' = NoResult /\ res2' = NoResult
    /\ UNCHANGED <<lst, ifos_res>> /\ ListFrame

NextList ==
    \/ \E e \in ListElements : ListAppend(e)
    \/ \E f \in SieveInputs : Sieve(f)
    \/ SieveAgain
    \/ Release
    \/ Ifos
SpecList == InitList /\ [][NextList]_vars

-----------------------------------------------------------------------------
(* ChannelList.from_names and ChannelList._split_names *)

\* the characters re_quote removes at both ends: white space and quotes
re_quote_chars == {" ", "\t", "\n", "\r", "\"", "'"}
\* re_quote.sub('', namestr)
re_quote_sub(namestr) == Strip(namestr, re_quote_chars)

\* namestr.strip('\' \n')
split_strip(namestr) == Strip(namestr, {"'", " ", "\n"})

\* some `nds2type` of NDS2_CHANNEL_TYPE has ',%s' % nds2type in namestr
split_has_type(namestr) == \E t \in NDS2_CHANNEL_TYPE : Contains(namestr, <<",">> \o t)

\* `channel, ctype, namestr = namestr.split(',', 2)`, or with two parts only
\* (ValueError) `channel, ctype = namestr.split(',')` and namestr = ''
split_typed(parts, out) ==
    [namestr |-> IF Len(parts) = 3 THEN parts[3] ELSE <<>>,
     out     |-> Append(out, parts[1] \o <<",">> \o parts[2])]

\* a bare-name branch that emits the first field and leaves the string whole
split_bare_stuck(parts, out) ==
    [namestr |-> parts[1] \o <<",">> \o parts[2], out |-> Append(out, parts[1])]

\* `channel, namestr = namestr.split(',', 1)`
split_bare(parts, out) == [namestr |-> parts[2], out |-> Append(out, parts[1])]

\* the for loop of one iteration, on the stripped string, which has a comma:
\* the first type found in it, wherever it is, takes the first two fields;
\* '' comes last and takes the first field
split_iteration(namestr, out) ==
    IF split_has_type(namestr) THEN split_typed(SplitMax(namestr, {","}, 2), out)
    ELSE split_bare(SplitMax(namestr, {","}, 1), out)

\* `if namestr: out.append(namestr)`
split_finish(namestr, out) == IF namestr # <<>> THEN Append(out, namestr) ELSE out

\* `new.append(Channel(name))` for each name
from_names_channels(names) == [j \in DOMAIN names |-> ChannelInit(names[j], NoKw).ch]

MaxItems == 3
\* an item of the input: a bare name (alias "") or a "name,alias" pair
NameItems ==
    [name  : {<<"H","1",":","A","-","B">>, <<"H","1",":","C","-","D">>},
     alias : {<<>>, <<"r","a","w">>, <<"m","-","t","r","e","n","d">>}]
ItemText(it) == IF it.alias = <<>> THEN it.name ELSE it.name \o <<",">> \o it.alias
RECURSIVE JoinItems(_, _)
JoinItems(items, sep) ==
    IF Len(items) = 1 THEN ItemText(items[1])
    ELSE ItemText(items[1]) \o sep \o JoinItems(Tail(items), sep)

InitNames ==
    /\ sn_items \in UNION {[1..k -> NameItems] : k \in 1..MaxItems}
    /\ sn_in \in {JoinItems(sn_items, sep) : sep \in {<<",">>, <<",", " ">>}}
    /\ sn_namestr = <<>> /\ sn_out = <<>> /\ sn_pc = "start" /\ sn_chans = <<>>
    /\ ParseIdle /\ ChanIdle /\ ListIdle /\ AvailIdle /\ QueryIdle
NamesFrame == UNCHANGED <<parseVars, chanVars, listVars, availVars, queryVars>>

\* _split_names up to the loop
SplitStart ==
    /\ sn_pc = "start"
    /\ sn_namestr' = re_quote_sub(sn_in) /\ sn_out' = <<>> /\ sn_pc' = "loop"
    /\ UNCHANGED <<sn_items, sn_in, sn_chans>> /\ NamesFrame

\* one iteration of `while True` that does not break
SplitIterDone(r) == sn_namestr' = r.namestr /\ sn_out' = r.out
SplitIter ==
    /\ sn_pc = "loop"
    /\ "," \in {split_strip(sn_namestr)[j] : j \in DOMAIN split_strip(sn_namestr)}
    /\ SplitIterDone(split_iteration(split_strip(sn_namestr), sn_out))
    /\ UNCHANGED <<sn_items, sn_in, sn_pc, sn_chans>> /\ NamesFrame

\* the iteration that breaks, and the statements after the loop
SplitExit ==
    /\ sn_pc = "loop"
    /\ "," \notin {split_strip(sn_namestr)[j] : j \in DOMAIN split_strip(sn_namestr)}
    /\ sn_namestr' = split_strip(sn_namestr)
    /\ sn_out' = split_finish(split_strip(sn_namestr), sn_out)
    /\ sn_pc' = "done"
    /\ UNCHANGED <<sn_items, sn_in, sn_chans>> /\ NamesFrame

\* from_names: a Channel for each name of the split
FromNames ==
    /\ sn_pc = "done"
    /\ sn_chans' = from_names_channels(sn_out)
    /\ sn_pc' = "built"
    /\ UNCHANGED <<sn_items, sn_in, sn_namestr, sn_out>> /\ NamesFrame

NextNames == SplitStart \/ SplitIter \/ SplitExit \/ FromNames
SpecNames == InitNames /\ [][NextNames]_vars

(* _split_names on any string: the input is a concatenation of pieces, and  *)
(* the loop always takes its next step                                      *)
MaxPieces == 5
SplitPieces == {<<"A">>, <<",">>, <<" ">>, <<"'">>, <<"r","a","w">>}
RECURSIVE Flatten(_)
Flatten(pieces) == IF pieces = <<>> THEN <<>> ELSE Head(pieces) \o Flatten(Tail(pieces))

InitSplit ==
    /\ sn_items = <<>>
    /\ sn_in \in {Flatten(ps) : ps \in UNION {[1..k -> SplitPieces] : k \in 0..MaxPieces}}
    /\ sn_namestr = <<>> /\ sn_out = <<>> /\ sn_pc = "start" /\ sn_chans = <<>>
    /\ ParseIdle /\ ChanIdle /\ ListIdle /\ AvailIdle /\ QueryIdle
NextSplit == SplitStart \/ SplitIter \/ SplitExit
SpecSplit == InitSplit /\ [][NextSplit]_vars /\ WF_vars(NextSplit)

-----------------------------------------------------------------------------
(* Segments (gwpy.segments): intervals, their intersection and coalescing *)

Max2(a, b) == IF a >= b THEN a ELSE b
Min2(a, b) == IF a <= b THEN a ELSE b

\* Segment(a, b)
Segment(a, b) == <<a, b>>

\* the intersection of seg with span is empty (`&` raises ValueError)
SegDisjoint(seg, span) == Max2(seg[1], span[1]) >= Min2(seg[2], span[2])
\* seg & span
SegAnd(seg, span) == <<Max2(seg[1], span[1]), Min2(seg[2], span[2])>>

\* insertion of a segment into a list sorted by start
RECURSIVE SegInsert(_, _)
SegInsert(seg, sorted) ==
    IF sorted = <<>> THEN <<seg>>
    ELSE IF seg[1] <= Head(sorted)[1] THEN <<seg>> \o sorted
    ELSE <<Head(sorted)>> \o SegInsert(seg, Tail(sorted))
RECURSIVE SegSort(_)
SegSort(segs) == IF segs = <<>> THEN <<>> ELSE SegInsert(Head(segs), SegSort(Tail(segs)))

\* merging of a sorted list: a segment that starts at or before the end of
\* the running segment extends it
RECURSIVE SegMerge(_, _)
SegMerge(sorted, acc) ==
    IF sorted = <<>> THEN acc
    ELSE IF acc # <<>> /\ Head(sorted)[1] <= acc[Len(acc)][2]
         THEN SegMerge(Tail(sorted),
                       [acc EXCEPT ![Len(acc)] = <<@[1], Max2(@[2], Head(sorted)[2])>>])
    ELSE SegMerge(Tail(sorted), Append(acc, Head(sorted)))

\* SegmentList.coalesce()
SegCoalesce(segs) == SegMerge(SegSort(segs), <<>>)
\* SegmentListDict.coalesce(): every list of the dict
DictCoalesce(d) == [t \in DOMAIN d |-> SegCoalesce(d[t])]

-----------------------------------------------------------------------------
(* ChannelList.query_nds2_availability *)

DigitChar(d) ==
    CASE d = 0 -> "0" [] d = 1 -> "1" [] d = 2 -> "2" [] d = 3 -> "3" [] d = 4 -> "4"
      [] d = 5 -> "5" [] d = 6 -> "6" [] d = 7 -> "7" [] d = 8 -> "8" [] d = 9 -> "9"
DigitVal(ch) ==
    CASE ch = "0" -> 0 [] ch = "1" -> 1 [] ch = "2" -> 2 [] ch = "3" -> 3 [] ch = "4" -> 4
      [] ch = "5" -> 5 [] ch = "6" -> 6 [] ch = "7" -> 7 [] ch = "8" -> 8 [] ch = "9" -> 9

\* '%d' % x for x >= 0
RECURSIVE IntToStr(_)
IntToStr(x) == IF x < 10 THEN <<DigitChar(x)>> ELSE IntToStr(x \div 10) \o <<DigitChar(x % 10)>>
\* int(s) for a str of digits
RECURSIVE StrToInt(_)
StrToInt(str) ==
    IF Len(str) = 1 THEN DigitVal(str[1])
    ELSE 10 * StrToInt(Take(str, Len(str) - 1)) + DigitVal(str[Len(str)])

\* the request token of a channel: str(c), with '%<rate>' for a Channel that
\* has a sample rate
av_name(ch) ==
    IF Truthy(ch.sample_rate) THEN ch.name \o <<"%">> \o IntToStr(ch.sample_rate.i)
    ELSE ch.name
\* names[i].split('%')[0]
av_base(ch) == Split(av_name(ch), {"%"})[1]

AllIn(str, cs) == \A j \in DOMAIN str : str[j] \in cs

\* re_seg: '\A(?P<obs>[A-Z])-(?P<type>\w+):(?P<start>\d+)-(?P<end>\d+)\Z'
\* the text after the ':' is start-end
re_seg_times(times) ==
    /\ FirstIdx(times, {"-"}) >= 2
    /\ FirstIdx(times, {"-"}) < Len(times)
    /\ AllIn(Take(times, FirstIdx(times, {"-"}) - 1), Digit)
    /\ AllIn(Drop(times, FirstIdx(times, {"-"})), Digit)
re_seg_match(seg) ==
    /\ Len(seg) >= 2 /\ seg[1] \in Upper /\ seg[2] = "-"
    /\ FirstIdx(seg, {":"}) >= 4
    /\ AllIn(SubSeq(seg, 3, FirstIdx(seg, {":"}) - 1), WordChar)
    /\ re_seg_times(Drop(seg, FirstIdx(seg, {":"})))
\* m['type'], int(m['start']), int(m['end']) of a matching record
re_seg_type(seg) == SubSeq(seg, 3, FirstIdx(seg, {":"}) - 1)
re_seg_start(seg) == StrToInt(Split(Drop(seg, FirstIdx(seg, {":"})), {"-"})[1])
re_seg_end(seg) == StrToInt(Split(Drop(seg, FirstIdx(seg, {":"})), {"-"})[2])

\* `segs[chan][ftype].append(seg)` or `segs[chan][ftype] = SegmentList([seg])`
av_dict_add(d, ftype, seg) ==
    IF ftype \in DOMAIN d THEN [d EXCEPT ![ftype] = Append(@, seg)]
    ELSE (ftype :> <<seg>>) @@ d

\* the loop over the records of a line: a record that does not match re_seg is
\* skipped when it is empty and a RuntimeError otherwise; a record whose
\* interval misses the span is skipped
RECURSIVE av_records(_, _, _)
av_record_add(recs, span, d, ftype, seg) ==
    IF SegDisjoint(seg, span) THEN av_records(Tail(recs), span, d)
    ELSE av_records(Tail(recs), span, av_dict_add(d, ftype, SegAnd(seg, span)))
av_records(recs, span, d) ==
    IF recs = <<>> THEN [d |-> d, err |-> ""]
    ELSE IF ~re_seg_match(Head(recs))
         THEN IF Head(recs) = <<>> THEN av_records(Tail(recs), span, d)
              ELSE [d |-> d, err |-> "RuntimeError: parsing, with the line"]
    ELSE av_record_add(recs, span, d, re_seg_type(Head(recs)),
                       Segment(re_seg_start(Head(recs)), re_seg_end(Head(recs))))

\* line.split(' ', 1)[1].strip('{').rstrip('}').split(' ')
av_line_records(rest) == Split(RStrip(Strip(rest, {"{"}), {"}"}), {" "})

AvRaise(i, segs, e) == [i |-> i, segs |-> segs, pc |-> "raised", err |-> e]
AvGoOn(i, segs) == [i |-> i, segs |-> segs, pc |-> "parse", err |-> ""]

\* the end of the loop body without `segs[chan].coalesce()`
av_consumed_nocoalesce(channels, i, segs, r) ==
    IF r.err # "" THEN AvRaise(i, segs, r.err)
    ELSE AvGoOn(i + 1, (channels[i + 1] :> r.d) @@ segs)

\* the end of the loop body: the records were read with outcome r;
\* `segs[chan].coalesce()`
av_consumed(channels, i, segs, r) ==
    IF r.err # "" THEN AvRaise(i, segs, r.err)
    ELSE AvGoOn(i + 1, (channels[i + 1] :> DictCoalesce(r.d)) @@ segs)

\* `chan = channels[i]; i += 1; segs[chan] = SegmentListDict()` and the
\* records; parts is line.split(' ', 1), whose [1] needs a space in the line
av_consume(channels, span, i, segs, parts) ==
    IF Len(parts) < 2 THEN AvRaise(i, segs, "IndexError")
    ELSE av_consumed(channels, i, segs, av_records(av_line_records(parts[2]), span, <<>>))

Str_Preamble ==
    <<"R","e","q","u","e","s","t","e","d"," ","s","o","u","r","c","e"," ","l","i","s","t",":">>
Str_ErrorInDaq == <<"E","r","r","o","r"," ","i","n"," ","d","a","q">>

\* a line loop without the `elif line.startswith('Error in daq')` branch
av_line_step_nomarker(channels, span, i, segs, line) ==
    IF StartsWith(line, Str_Preamble) THEN AvGoOn(i, segs)
    ELSE IF i + 1 > Len(channels) THEN AvRaise(i, segs, "IndexError")
    ELSE IF ~StartsWith(line, av_base(channels[i + 1]))
         THEN AvRaise(i, segs, "RuntimeError: parsing")
    ELSE av_consume(channels, span, i, segs, SplitMax(line, {" "}, 1))

\* one line of the output; i counts the channels consumed so far (names[i] is
\* channels[i + 1] here, sequences being 1-based)
av_line_step(channels, span, i, segs, line) ==
    IF StartsWith(line, Str_Preamble) THEN AvGoOn(i, segs)
    ELSE IF StartsWith(line, Str_ErrorInDaq) THEN AvRaise(i, segs, "RuntimeError: the line")
    ELSE IF i + 1 > Len(channels) THEN AvRaise(i, segs, "IndexError")
    ELSE IF ~StartsWith(line, av_base(channels[i + 1]))
         THEN AvRaise(i, segs, "RuntimeError: parsing")
    ELSE av_consume(channels, span, i, segs, SplitMax(line, {" "}, 1))

-----------------------------------------------------------------------------
(* A call of the availability resolver.  The tool's output is read line by  *)
(* line; any line may follow, so the lines are drawn as they are read.      *)

MaxLines == 3
AvChanA   == [name |-> Str_H1_A, sample_rate |-> PyNone]
AvChanA16 == [name |-> Str_H1_A, sample_rate |-> PyInt(16)]
AvChanB   == [name |-> <<"H","1",":","B">>, sample_rate |-> PyNone]
AvRequests == {<<AvChanA>>, <<AvChanA, AvChanB>>, <<AvChanA16, AvChanB>>}
AvSpans == {Segment(1, 7), Segment(0, 20)}

Rec(type, a, b) == <<"H", "-">> \o type \o <<":">> \o IntToStr(a) \o <<"-">> \o IntToStr(b)
\* the record lists of a line; every record has start <= end
AvRecordLists ==
    { <<>>,
      <<Rec(<<"R">>, 0, 2), Rec(<<"R">>, 2, 4), Rec(<<"R">>, 6, 8)>>,
      <<Rec(<<"R">>, 5, 9), Rec(<<"R">>, 1, 3)>>,
      <<Rec(<<"R">>, 0, 2), Rec(<<"T","_","1">>, 1, 3)>>,
      <<Rec(<<"R">>, 30, 40)>>,
      <<Rec(<<"R">>, 1, 3), Rec(<<"R">>, 2, 6)>>,
      <<<<"b","a","d">>>> }
RECURSIVE JoinRecs(_)
JoinRecs(recs) ==
    IF recs = <<>> THEN <<>>
    ELSE IF Len(recs) = 1 THEN recs[1]
    ELSE recs[1] \o <<" ">> \o JoinRecs(Tail(recs))
AvLine(nm, recs) == nm \o <<" ", "{">> \o JoinRecs(recs) \o <<"}">>
AvLines ==
    {AvLine(nm, recs) : nm \in {AvChanA.name, AvChanB.name}, recs \in AvRecordLists}
    \cup {Str_Preamble, Str_ErrorInDaq \o <<":", " ", "x">>, AvChanA.name}

InitAvail ==
    /\ av_channels \in AvRequests /\ av_span \in AvSpans /\ av_retcode \in {0, 1}
    /\ av_i = 0 /\ av_segs = <<>> /\ av_line = <<>> /\ av_pc = "start" /\ av_err = ""
    /\ av_nlines = 0
    /\ ParseIdle /\ ChanIdle /\ ListIdle /\ NamesIdle /\ QueryIdle
AvailFrame == UNCHANGED <<parseVars, chanVars, listVars, namesVars, queryVars>>

\* the tool has run: a non-zero exit code raises CalledProcessError
Communicate ==
    /\ av_pc = "start"
    /\ IF av_retcode # 0
       THEN av_pc' = "raised" /\ av_err' = "CalledProcessError"
       ELSE av_pc' = "parse" /\ av_err' = ""
    /\ UNCHANGED <<av_channels, av_span, av_retcode, av_i, av_segs, av_line, av_nlines>>
    /\ AvailFrame

\* the next line of out.splitlines()
ReadLineDone(line, r) ==
    /\ av_i' = r.i /\ av_segs' = r.segs /\ av_pc' = r.pc /\ av_err' = r.err
    /\ av_line' = line /\ av_nlines' = av_nlines + 1
ReadLine(line) ==
    /\ av_pc = "parse" /\ av_nlines < MaxLines
    /\ ReadLineDone(line, av_line_step(av_channels, av_span, av_i, av_segs, line))
    /\ UNCHANGED <<av_channels, av_span, av_retcode>> /\ AvailFrame

\* no line is left: `return segs`
Return ==
    /\ av_pc = "parse"
    /\ av_pc' = "returned"
    /\ UNCHANGED <<av_channels, av_span, av_retcode, av_i, av_segs, av_line, av_err, av_nlines>>
    /\ AvailFrame

NextAvail == Communicate \/ (\E line \in AvLines : ReadLine(line)) \/ Return
SpecAvail == InitAvail /\ [][NextAvail]_vars

-----------------------------------------------------------------------------
(* ChannelList.query_nds2 with an open connection: one iteration of the     *)
(* loop over the names for each answer of connection.find_channels          *)

\* Channel.ndsname
ndsname(ch) ==
    IF ch.type \notin {PyNone, PyStr(<<"r","a","w">>), PyStr(<<"r","e","d","u","c","e","d">>)}
    THEN ch.name \o <<",">> \o ch.type.s
    ELSE ch.name

\* Channel.ndstype: NDS2_CHANNEL_TYPE.get(self.type)
ndstype(ch) ==
    IF ch.type.k = "str" /\ ch.type.s \in NDS2_CHANNEL_TYPE
    THEN PyInt(CHOOSE code \in DOMAIN NDS2_CHANNEL_TYPESTR :
                    NDS2_CHANNEL_TYPESTR[code] = ch.type.s)
    ELSE PyNone

\* Channel.from_nds2: the channel of an nds2.channel record
from_nds2(nds2channel) ==
    ChannelInit(nds2channel.name,
        [NoKw EXCEPT
            !.sample_rate = PyInt(nds2channel.sample_rate),
            !.unit = IF nds2channel.signal_units = <<>> THEN PyNone
                     ELSE PyStr(nds2channel.signal_units),
            !.dtype = IF nds2channel.data_type = "DATA_TYPE_FLOAT32"
                      THEN PyStr(<<"f","4">>) ELSE PyNone,
            !.type = PyStr(NDS2_CHANNEL_TYPESTR[nds2channel.channel_type])]).ch

\* log(type, 2).is_integer()
IsPow2(x) == \E e \in 0..16 : x = 2^e

\* "format channel query": Channel(name, type=type) or Channel(name)
query_probe(name, type) ==
    IF Truthy(type) /\ (type.k = "str" \/ (type.k = "int" /\ IsPow2(type.i)))
    THEN ChannelInit(name, [NoKw EXCEPT !.type = type])
    ELSE ChannelInit(name, NoKw)

\* the arguments of connection.find_channels
query_find(ch, type) ==
    IF ndstype(ch) # PyNone THEN <<PyStr(ndsname(ch)), ndstype(ch)>>
    ELSE IF type # PyNone THEN <<PyStr(ch.name), type>>
    ELSE <<PyStr(ch.name)>>

QueryOutcome(out, query, finds, found, pc, err, warn) ==
    [out |-> out, query |-> query, finds |-> finds, found |-> found,
     pc |-> pc, err |-> err, warn |-> warn]

\* an iteration that keeps every rate variant of a unique match
query_select_keepall(unique, out, query, finds, warn, found, names) ==
    IF unique /\ Cardinality(names) = 0
    THEN QueryOutcome(out, query, finds, found, "raised", "ValueError: No match", warn)
    ELSE IF unique /\ Cardinality(names) > 1
    THEN QueryOutcome(out, query, finds, found, "raised", "ValueError: Multiple matches", warn)
    ELSE QueryOutcome(out \o found, query, finds, found, "loop", "",
                      IF unique /\ Len(found) > 1 THEN warn + 1 ELSE warn)

\* the rest of an iteration, with found = ChannelList(map(Channel.from_nds2,
\* found)) and _names the set of its ndsnames
query_select(unique, out, query, finds, warn, found, names) ==
    IF unique /\ Cardinality(names) = 0
    THEN QueryOutcome(out, query, finds, found, "raised", "ValueError: No match", warn)
    ELSE IF unique /\ Cardinality(names) > 1
    THEN QueryOutcome(out, query, finds, found, "raised", "ValueError: Multiple matches", warn)
    ELSE IF unique /\ Len(found) > 1
    THEN QueryOutcome(Append(out, found[1]), query, finds, found, "loop", "", warn + 1)
    ELSE QueryOutcome(out \o found, query, finds, found, "loop", "", warn)

\* find_channels answered with the records resp
query_found(unique, out, query, finds, warn, found) ==
    query_select(unique, out, query, finds, warn, found,
                 {ndsname(found[j]) : j \in DOMAIN found})

\* one iteration of `for name in names`, the probe channel built with
\* outcome probe
query_iteration(type, unique, out, finds, warn, probe, resp) ==
    IF probe.err # ""
    THEN QueryOutcome(out, <<>>, finds, <<>>, "raised", probe.err, warn)
    ELSE query_found(unique, out, query_find(probe.ch, type), finds + 1, warn,
                     [j \in DOMAIN resp |-> from_nds2(resp[j])])

MaxFound == 2
\* the records a server may answer with: one name at two rates and three
\* types, and another name
Nds2Record(nm, ctype, rate) ==
    [name |-> nm, sample_rate |-> rate, signal_units |-> <<>>,
     channel_type |-> ctype, data_type |-> "DATA_TYPE_FLOAT32"]
Nds2Records ==
    {Nds2Record(Str_H1_A, 2, 16), Nds2Record(Str_H1_A, 2, 256),
     Nds2Record(Str_H1_A, 4, 16), Nds2Record(Str_H1_A, 16, 16),
     Nds2Record(<<"H","1",":","B">>, 2, 16)}
Nds2Answers == UNION {[1..k -> Nds2Records] : k \in 0..MaxFound}

InitQuery ==
    /\ q_names \in {<<Str_H1_A>>, <<Str_H1_A, <<"H","1",":","B">>>>}
    /\ q_type \in {PyNone, PyStr(<<"m","-","t","r","e","n","d">>), PyStr(<<"x","x">>), PyInt(2)}
    /\ q_unique \in BOOLEAN
    /\ q_k = 0 /\ q_out = <<>> /\ q_found = <<>> /\ q_query = <<>> /\ q_finds = 0
    /\ q_pc = "loop" /\ q_err = "" /\ q_warn = 0
    /\ ParseIdle /\ ChanIdle /\ ListIdle /\ NamesIdle /\ AvailIdle
QueryFrame == UNCHANGED <<parseVars, chanVars, listVars, namesVars, availVars>>

\* the next name of the loop
QueryNameDone(r) ==
    /\ q_out' = r.out /\ q_query' = r.query /\ q_finds' = r.finds /\ q_found' = r.found
    /\ q_pc' = r.pc /\ q_err' = r.err /\ q_warn' = r.warn
    /\ q_k' = IF r.pc = "loop" THEN q_k + 1 ELSE q_k
QueryName(resp) ==
    /\ q_pc = "loop" /\ q_k < Len(q_names)
    /\ QueryNameDone(query_iteration(q_type, q_unique, q_out, q_finds, q_warn,
                                     query_probe(q_names[q_k + 1], q_type), resp))
    /\ UNCHANGED <<q_names, q_type, q_unique>> /\ QueryFrame

\* `return out`
QueryReturn ==
    /\ q_pc = "loop" /\ q_k = Len(q_names)
    /\ q_pc' = "returned"
    /\ UNCHANGED <<q_names, q_type, q_unique, q_k, q_out, q_found, q_query, q_finds, q_err, q_warn>>
    /\ QueryFrame

NextQuery == (\E resp \in Nds2Answers : QueryName(resp)) \/ QueryReturn
SpecQuery == InitQuery /\ [][NextQuery]_vars

-----------------------------------------------------------------------------
(* Claims about the parser and the Channel *)

\* C1: the derived fields (ifo, system, subsystem, signal) of every channel are
\* the parser's output on its current name, and an assignment to a field other
\* than name changes neither the name nor the derived fields.
DerivedFromName(ch) == Derived(ch) = parse_channel_name(PyStr(ch.name))
C1_DerivedFollowName ==
    /\ [](DerivedFromName(c) /\ (n.live => DerivedFromName(n.ch)))
    /\ [][last'.op = "attr" => (c'.name = c.name /\ Derived(c') = Derived(c))]_vars
\* a name with an unrecognised ",xx" suffix was assigned over a channel and parsed anew
C1_Witness ==
    /\ last.op = "name" /\ last.nm = <<"A",",","x","x">>
    /\ c.name = <<"A",",","x","x">> /\ c.ifo = PyNone
    /\ c.system = PyStr(<<"A",",","x","x">>)

\* C2: parse(name) is all-null for an empty or null name; otherwise ifo is the
\* text before the first ':' when the name starts with the IFO pattern and ':'
\* (else null), and the remainder is cut at its first two delimiters into
\* system, subsystem and signal, null where the token does not exist.
ParseAsClaimed(v, out) ==
    IF v = PyNone \/ v = PyStr(<<>>) THEN out = <<PyNone, PyNone, PyNone, PyNone>>
    ELSE
      LET s      == v.s
          hasifo == Len(s) >= 3 /\ s[1] \in Upper /\ s[2] \in Digit /\ s[3] = ":"
          colon  == FirstIdx(s, {":"})
          rest   == IF hasifo THEN Drop(s, colon) ELSE s
          D      == {j \in DOMAIN rest : rest[j] \in {"-", "_"}}
          d1     == CHOOSE j \in D : \A m \in D : j <= m
          d2     == CHOOSE j \in D \ {d1} : \A m \in D \ {d1} : j <= m
      IN  /\ out[1] = (IF hasifo THEN PyStr(Take(s, colon - 1)) ELSE PyNone)
          /\ CASE D = {} ->
                    out[2] = PyStr(rest) /\ out[3] = PyNone /\ out[4] = PyNone
               [] Cardinality(D) = 1 ->
                    /\ out[2] = PyStr(Take(rest, d1 - 1))
                    /\ out[3] = PyStr(Drop(rest, d1)) /\ out[4] = PyNone
               [] OTHER ->
                    /\ out[2] = PyStr(Take(rest, d1 - 1))
                    /\ out[3] = PyStr(SubSeq(rest, d1 + 1, d2 - 1))
                    /\ out[4] = PyStr(Drop(rest, d2))
C2_Parse ==
    pn_out # <<>> =>
      /\ ParseAsClaimed(pn_name, pn_out)
      /\ pn_name = PyStr(<<"H","1",":","S","Y","S","-","S","U","B","_","S","I","G">>)
            => pn_out = <<PyStr(<<"H","1">>), PyStr(<<"S","Y","S">>),
                          PyStr(<<"S","U","B">>), PyStr(<<"S","I","G">>)>>
      /\ pn_name = PyStr(<<"S","Y","S">>)
            => pn_out = <<PyNone, PyStr(<<"S","Y","S">>), PyNone, PyNone>>
\* a name with an IFO prefix whose third token keeps a delimiter was parsed
C2_Witness ==
    /\ pn_out # <<>> /\ pn_out[1] # PyNone /\ pn_out[4] # PyNone
    /\ \E j \in DOMAIN pn_out[4].s : pn_out[4].s[j] \in {"-", "_"}

\* C3: Channel(c, **kw) has c's name, every supplied keyword's value (as the
\* field's setter stores it) and c's value for every omitted one; Channel(name)
\* for a bare name leaves the six optional fields unset.
Stored(f, v) ==
    CASE f = "model" /\ v.k = "str" -> PyStr(Lower(v.s))
      [] f = "type" /\ v.k = "str" -> PyStr(Lower(v.s))
      [] f = "type" /\ v.k = "int" -> PyStr(NDS2_CHANNEL_TYPESTR[v.i])
      [] OTHER -> v
C3_CopyMerge ==
    /\ (last.op = "newfrom" /\ n.live) =>
          /\ n.ch.name = c.name
          /\ \A f \in KwNames :
                n.ch[f] = IF last.kw[f] # PyNone THEN Stored(f, last.kw[f]) ELSE c[f]
    /\ (last.op = "new" /\ n.live /\ "," \notin {last.nm[j] : j \in DOMAIN last.nm}) =>
          \A f \in KwNames : n.ch[f] = PyNone

\* C4: assigning a name that contains a comma never fails; when the text after
\* the last comma is a type alias the name is the text before that comma and
\* the type is the alias's canonical type, otherwise the name is the whole
\* string and the type is left as it was.
HasComma(nm) == \E j \in DOMAIN nm : nm[j] = ","
CommaNameAsClaimed(nm, before, after, err) ==
    LET k   == CHOOSE j \in DOMAIN nm : nm[j] = "," /\ \A m \in (j + 1)..Len(nm) : nm[m] # ","
        seg == SubSeq(nm, k + 1, Len(nm))
    IN  /\ err = ""
        /\ IF Lower(seg) \in NDS2_CHANNEL_TYPE
           THEN after.name = SubSeq(nm, 1, k - 1) /\ after.type = PyStr(Lower(seg))
           ELSE after.name = nm /\ after.type = before.type
C4_CommaName ==
    [][ /\ (last'.op = "name" /\ HasComma(last'.nm))
            => CommaNameAsClaimed(last'.nm, c, c', last'.err)
        /\ (last'.op = "new" /\ HasComma(last'.nm))
            => (n'.live /\ CommaNameAsClaimed(last'.nm, Blank, n'.ch, last'.err)) ]_vars
\* a name whose suffix is no alias was assigned to a channel that had a type
C4_Witness ==
    /\ last.op = "name" /\ last.nm = <<"A",",","x","x">> /\ last.err = ""
    /\ c.name = <<"A",",","x","x">> /\ c.type = PyStr(<<"m","-","t","r","e","n","d">>)

\* C5: for every combination of the optional filters, the name filter omitted
\* included, sieve returns exactly the elements that pass every supplied
\* filter, in their original order.
SieveKeeps(entry, f) ==
    /\ f.name # PyNone =>
          IF f.exact_match
          THEN entry.name = re_literal(f.name.s)
          ELSE re_search(f.name.s, entry.name)
    /\ f.sample_rate # PyNone =>
          (entry.sample_rate # PyNone /\ entry.sample_rate.i = f.sample_rate.i)
    /\ f.sample_range # <<>> =>
          /\ entry.sample_rate # PyNone
          /\ f.sample_range[1] <= entry.sample_rate.i
          /\ entry.sample_rate.i <= f.sample_range[2]
    /\ \A attr \in DOMAIN f.others :
          f.others[attr] # PyNone =>
              (attr \in DOMAIN entry /\ entry[attr] = f.others[attr])
C5_SieveAllFilters ==
    call # <<>> =>
      /\ res.err = ""
      /\ res.out = SelectSeq(lst, LAMBDA entry : SieveKeeps(entry, call[1]))

\* C6: a sieve call, whether it returns or fails, leaves the receiver's
\* elements and their order as they were, and what it returns is a new list.
C6_SieveNoMutation ==
    [][call' # <<>> => (lst' = lst /\ (res'.err = "" => res'.ident = "new"))]_vars
\* a sieve call dropped an element of a two-element list
C6_Witness ==
    /\ call # <<>> /\ res.err = "" /\ Len(lst) = 2 /\ Len(res.out) = 1
\* C7: from_names of a comma-separated string of bare names and "name,alias"
\* pairs yields one Channel for each item, in input order, the pair's alias
\* being the channel's type; "H1:A-B, H1:C-D,raw" yields H1:A-B and H1:C-D,
\* the second of type raw.
C7_FromNames ==
    sn_pc = "built" =>
      /\ Len(sn_chans) = Len(sn_items)
      /\ \A j \in DOMAIN sn_items :
            /\ j \in DOMAIN sn_chans
            /\ sn_chans[j].name = sn_items[j].name
            /\ sn_chans[j].type =
                  (IF sn_items[j].alias = <<>> THEN PyNone ELSE PyStr(sn_items[j].alias))

\* the last line read is neither the preamble nor an error-marker line
AvOrdinary(line) == ~StartsWith(line, Str_Preamble) /\ ~StartsWith(line, Str_ErrorInDaq)

\* C8: a line that is neither preamble nor error marker is consumed for the
\* next unconsumed requested channel, and only when it begins with that
\* channel's base name; any other such line, wherever it stands in the
\* output, ends the call with a fatal parse error.
C8_LinesInRequestOrder ==
    (av_nlines > 0 /\ AvOrdinary(av_line)) =>
      /\ av_pc \in {"parse", "returned"} =>
            /\ av_i >= 1
            /\ StartsWith(av_line, av_base(av_channels[av_i]))
            /\ av_channels[av_i] \in DOMAIN av_segs
      /\ (av_pc = "raised" /\ (av_i >= Len(av_channels)
                               \/ ~StartsWith(av_line, av_base(av_channels[av_i + 1])))) =>
            av_err = "RuntimeError: parsing"

\* C9: a report that is returned has an entry for every requested channel.
C9_EntryForEveryChannel ==
    av_pc = "returned" =>
        \A j \in DOMAIN av_channels : av_channels[j] \in DOMAIN av_segs

\* C10: in a returned report every interval sequence is sorted by start with
\* each start strictly after the previous end, and lies within the requested
\* span; the entry made for a line covers, for each storage type, exactly the
\* part of the line's records that is inside the span, so a record outside
\* the span contributes nothing and raises no error.
SegCells(seg) == seg[1]..(seg[2] - 1)
LineRecords(line) ==
    LET body == SubSeq(line, FirstIdx(line, {"{"}) + 1, Len(line) - 1)
    IN  IF body = <<>> THEN <<>> ELSE Split(body, {" "})
RecordCells(recs, type, span) ==
    UNION { {x \in re_seg_start(recs[j])..(re_seg_end(recs[j]) - 1) :
                span[1] <= x /\ x < span[2]} :
            j \in {m \in DOMAIN recs : re_seg_type(recs[m]) = type} }
AscendingWithin(segs, span) ==
    /\ \A j \in DOMAIN segs :
          segs[j][1] <= segs[j][2] /\ span[1] <= segs[j][1] /\ segs[j][2] <= span[2]
    /\ \A j \in 1..(Len(segs) - 1) : segs[j][2] < segs[j + 1][1]
C10_Coalesced ==
    /\ av_pc = "returned" =>
          \A ch \in DOMAIN av_segs : \A t \in DOMAIN av_segs[ch] :
              AscendingWithin(av_segs[ch][t], av_span)
    /\ (av_pc = "parse" /\ av_nlines > 0 /\ AvOrdinary(av_line)) =>
          LET recs  == LineRecords(av_line)
              entry == av_segs[av_channels[av_i]]
              types == {re_seg_type(recs[j]) : j \in DOMAIN recs}
          IN  /\ DOMAIN entry = {t \in types : RecordCells(recs, t, av_span) # {}}
              /\ \A t \in DOMAIN entry :
                    UNION {SegCells(entry[t][j]) : j \in DOMAIN entry[t]}
                        = RecordCells(recs, t, av_span)
\* a report was returned in which three records of one line, two of them
\* adjacent, were merged into two intervals, one cut at the end of the span,
\* and the one record of the next line was outside the span
C10_Witness ==
    /\ av_pc = "returned" /\ av_span = Segment(1, 7)
    /\ AvChanA \in DOMAIN av_segs /\ AvChanB \in DOMAIN av_segs
    /\ DOMAIN av_segs[AvChanA] = {<<"R">>}
    /\ av_segs[AvChanA][<<"R">>] = <<Segment(1, 4), Segment(6, 7)>>
    /\ av_line = AvLine(AvChanB.name, <<Rec(<<"R">>, 30, 40)>>)
    /\ DOMAIN av_segs[AvChanB] = {}

\* C11: the resolver returns no report when it fails: a non-zero exit code
\* raises the tool-invocation error before any line is read, a line that
\* begins with the error marker raises an error carrying that line, and a
\* non-empty record that is not of the form OBS-TYPE:START-END, in a line
\* read for a requested channel, raises the parse error carrying that line,
\* however many channels were read before it.
HasBadRecord(line) ==
    /\ Contains(line, <<" ", "{">>)
    /\ \E rec \in {LineRecords(line)[j] : j \in DOMAIN LineRecords(line)} :
          rec # <<>> /\ ~re_seg_match(rec)
C11_NoReportOnFailure ==
    /\ (av_retcode # 0 /\ av_pc # "start") =>
          (av_pc = "raised" /\ av_err = "CalledProcessError" /\ av_nlines = 0)
    /\ av_pc = "returned" => (av_retcode = 0 /\ av_err = "")
    /\ (av_nlines > 0 /\ ~StartsWith(av_line, Str_Preamble)
                      /\ StartsWith(av_line, Str_ErrorInDaq)) =>
          (av_pc = "raised" /\ av_err = "RuntimeError: the line")
    /\ (av_nlines > 0 /\ AvOrdinary(av_line) /\ HasBadRecord(av_line)) =>
          /\ av_pc = "raised"
          /\ (av_i < Len(av_channels)
                /\ StartsWith(av_line, av_base(av_channels[av_i + 1]))) =>
                av_err = "RuntimeError: parsing, with the line"
\* the line of the second channel held a malformed record after the first
\* channel's line had been read
C11_Witness ==
    /\ av_pc = "raised" /\ av_err = "RuntimeError: parsing, with the line"
    /\ av_i = 1 /\ AvChanA \in DOMAIN av_segs
    /\ av_line = AvLine(AvChanB.name, <<<<"b","a","d">>>>)

\* C12: with unique set, query_nds2 fails with "No match" at the first name
\* whose answer holds no NDS name and with "Multiple matches" at the first
\* whose answer holds more than one, and otherwise returns one channel for
\* each requested name, in request order, the first of the name's answer
\* (with a warning when the answer held several); without unique it appends
\* every answer whole, in request order, and raises neither error.
C12_UniqueOrAll ==
    /\ [](q_pc = "returned" =>
            /\ q_k = Len(q_names) /\ q_err = ""
            /\ q_unique => Len(q_out) = Len(q_names))
    /\ [](q_err \in {"ValueError: No match", "ValueError: Multiple matches"} => q_unique)
    /\ [][ q_finds' = q_finds + 1 =>
            LET ids == {ndsname(q_found'[j]) : j \in DOMAIN q_found'}
            IN  IF q_unique /\ Cardinality(ids) = 0
                THEN q_pc' = "raised" /\ q_err' = "ValueError: No match"
                ELSE IF q_unique /\ Cardinality(ids) > 1
                THEN q_pc' = "raised" /\ q_err' = "ValueError: Multiple matches"
                ELSE /\ q_pc' = "loop" /\ q_err' = "" /\ q_k' = q_k + 1
                     /\ q_out' = IF q_unique THEN Append(q_out, q_found'[1])
                                  ELSE q_out \o q_found'
                     /\ q_warn' = IF q_unique /\ Len(q_found') > 1
                                   THEN q_warn + 1 ELSE q_warn ]_vars
\* a unique query of two names returned two channels, the first of them
\* taken from an answer with two rates of one NDS name
C12_Witness ==
    /\ q_pc = "returned" /\ q_unique /\ Len(q_names) = 2 /\ Len(q_out) = 2
    /\ q_warn = 1 /\ q_out[1].sample_rate = PyInt(256)
    /\ q_out[2].name = <<"H","1",":","B">>

\* C13: sieve is idempotent: the list a sieve call returned, sieved again with
\* the same filters, gives the same elements in the same order.
C13_SieveIdempotent ==
    res2 # NoResult => (res2.err = "" /\ res2.out = res.out)
\* a sieve that kept one element of two was repeated on its result
C13_Witness ==
    /\ res2 # NoResult /\ res2.err = "" /\ Len(lst) = 2 /\ Len(res.out) = 1
    /\ res2.out = res.out

\* C14: ifos is the set of the distinct non-null ifo values of the elements;
\* it never holds null.
C14_IfosNonNull ==
    ifos_res # <<>> =>
        ifos_res[1] = {lst[j].ifo : j \in DOMAIN lst} \ {PyNone}

\* C15: the loop of _split_names ends on every input: an iteration that
\* starts with a comma in the remaining string emits exactly one token and
\* leaves a string with fewer commas, and the loop is left as soon as no
\* comma remains, the remainder being emitted as the last token when it is
\* not empty.
Commas(str) == Cardinality({j \in DOMAIN str : str[j] = ","})
C15_SplitTerminates ==
    /\ <>(sn_pc = "done")
    /\ [][ (sn_pc = "loop" /\ Commas(sn_namestr) > 0) =>
            /\ sn_pc' = "loop"
            /\ Len(sn_out') = Len(sn_out) + 1
            /\ SubSeq(sn_out', 1, Len(sn_out)) = sn_out
            /\ Commas(sn_namestr') < Commas(sn_namestr) ]_vars
    /\ [][ (sn_pc = "loop" /\ Commas(sn_namestr) = 0) =>
            /\ sn_pc' = "done"
            /\ sn_out' = IF Strip(sn_namestr, {"'", " ", "\n"}) # <<>>
                          THEN Append(sn_out, Strip(sn_namestr, {"'", " ", "\n"}))
                          ELSE sn_out ]_vars
\* the loop ended after a typed pair was cut off and the rest emitted
C15_Witness ==
    /\ sn_pc = "done" /\ sn_items = <<>>
    /\ sn_out = << <<"A", ",", "r", "a", "w">>, <<"A">> >>

====
